---- MODULE Spec2Model ----
(***************************************************************************)
(* A model of hegner123/init (src/main.go): the stdio JSON-RPC server      *)
(* runMCPServer with its line-producer goroutine, its signal goroutine and *)
(* its main select loop, the request handlers, and writeFiles, which       *)
(* writes the embedded templates into a target directory.                  *)
(***************************************************************************)
EXTENDS Integers, Sequences, FiniteSets, TLC

(***************************************************************************)
(* Bounds of the model.                                                    *)
(***************************************************************************)
\* the number of lines the scanner delivers before the input ends or fails
MaxLines == 2
\* the number of termination signals delivered to the process
MaxSignals == 1
\* the number of times the program is run in CLI mode, one after the other
MaxRuns == 2

(***************************************************************************)
(* Program constants.                                                      *)
(***************************************************************************)
\* main.go:29-32: the template set, in order
embeddedFiles ==
    << [Content |-> "FILE1", DestName |-> "LICENSE"],
       [Content |-> "FILE2", DestName |-> "CONTRIBUTING.md"] >>

DestNames == { embeddedFiles[i].DestName : i \in 1..Len(embeddedFiles) }

\* main.go:35-38: exit codes for CLI mode
ExitSuccess == 0
ExitError == 1

\* main.go:187: sigChan := make(chan os.Signal, 1)
SigChanCap == 1
\* main.go:199: errChan := make(chan error, 1)
ErrChanCap == 1

\* the JSON-RPC error codes the handlers pass to sendError
CodeParseError == -32700
CodeMethodNotFound == -32601
CodeInvalidParams == -32602
CodeInternalError == -32603

(***************************************************************************)
(* JSON values as they appear on an input line.  Every value is a record   *)
(* [t, hi, lo, s]: t is the JSON type, (hi, lo) the digits of an integer   *)
(* literal hi * 2^27 + lo, s the content of a string literal.              *)
(***************************************************************************)
Base == 2^27

JAbsent == [t |-> "absent", hi |-> 0, lo |-> 0, s |-> ""]
JNull == [t |-> "null", hi |-> 0, lo |-> 0, s |-> ""]
JNum(h, l) == [t |-> "num", hi |-> h, lo |-> l, s |-> ""]
JStr(x) == [t |-> "str", hi |-> 0, lo |-> 0, s |-> x]

\* 2^53 + 1 = 9007199254740993, the smallest integer float64 cannot hold
BigOdd == JNum(2^26, 1)

\* strconv.ParseFloat as encoding/json applies it to a number literal that is
\* decoded into an `any` (main.go:50): round to nearest, ties to even, on a
\* 53-bit mantissa.  Integers below 2^53 are exact; in [2^53, 2^54) the
\* representable values are the even integers.
Float64(v) ==
    IF v.hi < 2^26 \/ v.lo % 2 = 0 THEN v
    ELSE IF ((v.lo - 1) \div 2) % 2 = 0 THEN JNum(v.hi, v.lo - 1)
    ELSE IF v.lo + 1 = Base THEN JNum(v.hi + 1, 0)
    ELSE JNum(v.hi, v.lo + 1)

\* What json.Unmarshal stores in a field of type `any` (JSONRPCRequest.ID,
\* main.go:50) for the JSON value v, written back as the JSON value that
\* json.Marshal emits for it (JSONRPCResponse.ID, main.go:57): an absent or
\* null id is nil and marshals as null, a number is a float64, a string is
\* a string.
DecodeAny(v) ==
    CASE v.t = "absent" -> JNull
      [] v.t = "null" -> JNull
      [] v.t = "num" -> Float64(v)
      [] OTHER -> v

(***************************************************************************)
(* Input lines.  A line is what scanner.Text() returns (main.go:203):      *)
(*   k = "empty"    the empty string                                       *)
(*   k = "garbage"  text that is not JSON (also blanks only)               *)
(*   k = "null"     the JSON literal null                                  *)
(*   k = "scalar"   a JSON number, string, boolean or array                *)
(*   k = "obj"      a JSON object with "jsonrpc":"2.0" and the members     *)
(*                  id, method, params (each possibly absent).  params is  *)
(*                  flattened: pt is its JSON type, name its "name"        *)
(*                  member, at the JSON type of its "arguments" member and *)
(*                  dir the "directory" member of arguments.               *)
(***************************************************************************)
Line(k, id, method, pt, name, at, dir) ==
    [k |-> k, id |-> id, method |-> method, pt |-> pt, name |-> name,
     at |-> at, dir |-> dir]

NonObject(k) == Line(k, JAbsent, JAbsent, "absent", JAbsent, "absent", JAbsent)
EmptyLine == NonObject("empty")

\* an object without params
Plain(id, method) == Line("obj", id, method, "absent", JAbsent, "absent", JAbsent)
\* a tools/call request
Call(id, pt, name, at, dir) == Line("obj", id, JStr("tools/call"), pt, name, at, dir)
\* a well-formed call of the init tool on directory d
InitCall(id, d) == Call(id, "obj", JStr("init"), "obj", JStr(d))

\* the target paths of the model: an existing directory, a path that does
\* not exist, and a regular file
Dirs == {"/d", "/missing", "/f"}

Seven == JNum(0, 7)
\* the ids requests carry
Ids == {JAbsent, JNull, Seven, BigOdd, JStr("7")}

Lines ==
    { NonObject(k) : k \in {"empty", "garbage", "null", "scalar"} }
    \cup { Plain(id, JStr("initialize")) : id \in Ids }
    \cup { Plain(id, JStr("nosuch")) : id \in {Seven, JStr("7")} }
    \cup { Plain(Seven, m) : m \in {JStr("tools/list"), Seven, JAbsent} }
    \cup { Call(Seven, pt, JStr("init"), "obj", JStr("/d")) :
             pt \in {"absent", "null", "scalar"} }
    \cup { Call(JStr("7"), "obj", n, "obj", JStr("/d")) :
             n \in {JStr("other"), Seven} }
    \cup { Call(Seven, "obj", JStr("init"), at, JAbsent) :
             at \in {"scalar", "obj"} }
    \cup { Call(JStr("7"), "obj", JStr("init"), "obj", d) :
             d \in {Seven, JStr("")} }
    \cup { InitCall(id, "/d") : id \in {Seven, BigOdd} }
    \cup { InitCall(Seven, d) : d \in {"/missing", "/f"} }

(***************************************************************************)
(* encoding/json as the handlers use it.                                   *)
(***************************************************************************)
\* a Go string field: a JSON string sets it, null or an absent member
\* leaves "", anything else is an UnmarshalTypeError
StringFieldErr(v) == v.t \notin {"str", "null", "absent"}
StringField(v) == IF v.t = "str" THEN v.s ELSE ""

\* main.go:226-227: json.Unmarshal([]byte(line), &req).  The literal null
\* decodes without error and leaves req zero; Params keeps the raw value.
Unmarshal(line) ==
    CASE line.k \in {"garbage", "scalar", "empty"} ->
            [err |-> TRUE, ID |-> JNull, Method |-> "", Params |-> line]
      [] line.k = "null" ->
            [err |-> FALSE, ID |-> JNull, Method |-> "", Params |-> NonObject("null")]
      [] OTHER ->
            [err |-> StringFieldErr(line.method),
             ID |-> DecodeAny(line.id),
             Method |-> StringField(line.method),
             Params |-> line]

\* main.go:290-291: json.Unmarshal(req.Params, &params) into ToolCallParams.
\* An absent params is empty input (a syntax error), null leaves params
\* zero, a non-object is a type error; Arguments is a map, nil when the
\* member is absent or null.
UnmarshalParams(p) ==
    CASE p.k = "null" \/ p.pt = "absent" ->
            [err |-> TRUE, Name |-> "", hasArgs |-> FALSE, dir |-> JAbsent]
      [] p.pt = "scalar" ->
            [err |-> TRUE, Name |-> "", hasArgs |-> FALSE, dir |-> JAbsent]
      [] p.pt = "null" ->
            [err |-> FALSE, Name |-> "", hasArgs |-> FALSE, dir |-> JAbsent]
      [] OTHER ->
            [err |-> StringFieldErr(p.name) \/ p.at = "scalar",
             Name |-> StringField(p.name),
             hasArgs |-> p.at = "obj",
             dir |-> IF p.at = "obj" THEN p.dir ELSE JAbsent]

\* main.go:301: directory, ok := params.Arguments["directory"].(string)
DirectoryArg(params) ==
    IF params.hasArgs /\ params.dir.t = "str"
    THEN [ok |-> TRUE, directory |-> params.dir.s]
    ELSE [ok |-> FALSE, directory |-> ""]

(***************************************************************************)
(* Responses, as the JSON object written on one output line.               *)
(***************************************************************************)
NoPath == << >>
NoFiles == << >>

\* main.go:331-343: Result is set, Error is nil and omitted (omitempty)
sendResponse(id, result, files) ==
    [id |-> id, hasResult |-> TRUE, result |-> result, files |-> files,
     hasError |-> FALSE, code |-> 0, message |-> "", path |-> NoPath]

\* sendError of a Result field without omitempty: the error response also
\* carries "result": null
sendError_NullResult(id, code, message, path) ==
    [id |-> id, hasResult |-> TRUE, result |-> "null", files |-> NoFiles,
     hasError |-> TRUE, code |-> code, message |-> message, path |-> path]

\* main.go:345-360: Error is set, Result is nil and omitted (omitempty)
sendError(id, code, message, path) ==
    [id |-> id, hasResult |-> FALSE, result |-> "", files |-> NoFiles,
     hasError |-> TRUE, code |-> code, message |-> message, path |-> path]

NoResp == [id |-> JAbsent, hasResult |-> FALSE, result |-> "", files |-> NoFiles,
           hasError |-> FALSE, code |-> 0, message |-> "", path |-> NoPath]

(***************************************************************************)
(* The filesystem.  The target paths are fixed: "/d" is a directory,       *)
(* "/missing" does not exist, "/f" is a regular file.  fs maps each        *)
(* destination filename to the entry of that name in "/d".                 *)
(***************************************************************************)
Entry(kind, content) == [kind |-> kind, content |-> content]
Absent == Entry("absent", "none")

\* the entries a destination path can hold before the program runs: nothing,
\* a regular file, a directory, a symlink to a file, a symlink whose target
\* does not exist, an entry whose stat fails with an error other than
\* ENOENT (EACCES, ELOOP, ...)
InitEntries ==
    { Absent, Entry("file", "old"), Entry("dir", "none"),
      Entry("symlink", "old"), Entry("dangling", "none"),
      Entry("unstatable", "old") }

\* filepath.Join(directory, ef.DestName), main.go:164
Join(directory, name) == <<directory, name>>

\* main.go:153-159: os.Stat(directory) and info.IsDir()
StatDirectory(directory) ==
    CASE directory = "/d" -> [err |-> "nil", IsDir |-> TRUE]
      [] directory = "/f" -> [err |-> "nil", IsDir |-> FALSE]
      [] OTHER -> [err |-> "ENOENT", IsDir |-> FALSE]

\* main.go:166: os.Stat(destPath).  Stat follows symlinks, so a symlink
\* whose target is missing reports ENOENT; below a path that is no
\* directory it reports ENOENT or ENOTDIR.
Stat(f, directory, name) ==
    CASE directory = "/f" -> "ENOTDIR"
      [] directory # "/d" -> "ENOENT"
      [] f[name].kind \in {"absent", "dangling"} -> "ENOENT"
      [] f[name].kind = "unstatable" -> "EOTHER"
      [] OTHER -> "nil"

\* main.go:170: os.WriteFile(destPath, ef.Content, 0644), that is
\* open(O_WRONLY|O_CREATE|O_TRUNC) then write then close: the set of the
\* possible outcomes [err, entry] for the entry e at the destination.
\* The open follows symlinks and truncates what it finds; it fails on a
\* directory and where the path cannot be resolved.  Any open can fail
\* (permissions, quota), and a write can fail after the open succeeded,
\* leaving a truncated file.
WriteFile(e, directory, content) ==
    IF directory # "/d" \/ e.kind \in {"dir", "unstatable"}
    THEN { [err |-> TRUE, entry |-> e] }
    ELSE LET kind == CASE e.kind = "absent" -> "file"
                       [] e.kind = "dangling" -> "symlink"
                       [] OTHER -> e.kind
         IN { [err |-> FALSE, entry |-> Entry(kind, content)],
              [err |-> TRUE, entry |-> e],
              [err |-> TRUE, entry |-> Entry(kind, "partial")] }

(***************************************************************************)
(* Values writeFiles returns.                                              *)
(***************************************************************************)
NoErr == [kind |-> "nil", path |-> NoPath]
\* main.go:155, 158, 167, 171
ErrChecking(directory) == [kind |-> "checking directory", path |-> <<directory>>]
ErrNotDir(directory) == [kind |-> "not a directory", path |-> <<directory>>]
ErrExists(destPath) == [kind |-> "file already exists", path |-> destPath]
ErrWriting(destPath) == [kind |-> "writing", path |-> destPath]

WfResult(err, directory, created) ==
    [err |-> err, Directory |-> directory, FilesCreated |-> created]
NoRet == WfResult(NoErr, "", NoFiles)
NoCall == [dir |-> "", i |-> 0, created |-> NoFiles]

VARIABLES
    mode,        \* "server" or "cli": the -cli flag, main.go:118-128
    cli,         \* CLI mode: the -directory flag, the exit status, the output
    fs,          \* the entries of "/d" at the destination filenames
    fs0,         \* fs as it was when the writeFiles call in progress began
    ppc,         \* line producer: "scan", "send", "err", "close", "done"
    nread,       \* the number of lines the scanner has returned
    lineClosed,  \* lineChan is closed
    errChan,     \* the buffered error channel
    nsig,        \* the number of signals delivered to the process
    sigChan,     \* the number of signals buffered in sigChan
    spc,         \* signal goroutine: "wait", "woke", "done"
    cancelled,   \* ctx is cancelled
    pc,          \* main goroutine
    line,        \* the line being handled
    lineNo,      \* its number in the input
    wf,          \* locals of the writeFiles call in progress
    ret,         \* what the writeFiles call returned
    resp,        \* the response being written
    out,         \* stdout: per response line, the number of the input line it
                 \* answers and its error code (0 for a result)
    disp,        \* the numbers of the non-empty lines taken by the main loop
    nEmpty,      \* the number of empty lines taken by the main loop
    exitReason,  \* the select case through which the loop returned
    prevCall     \* the last completed writeFiles call: its directory, what it
                 \* returned and the filesystem it started from

vars == <<mode, cli, fs, fs0, ppc, nread, lineClosed, errChan, nsig, sigChan, spc,
          cancelled, pc, line, lineNo, wf, ret, resp, out, disp, nEmpty,
          exitReason, prevCall>>

producerVars == <<ppc, nread, lineClosed, errChan>>
signalVars == <<nsig, sigChan, spc>>
callVars == <<wf, ret, fs0>>
logVars == <<out, disp, nEmpty, exitReason>>

\* a destination filename of the directory holds an entry
Populated(f) == \E n \in DestNames : f[n].kind # "absent"

NoPrev == [done |-> FALSE, dir |-> "", ret |-> NoRet,
           pre |-> [n \in DestNames |-> Absent]]

\* CLI mode: run counts the invocations, code is the exit status (-1 while
\* the process runs), printed the files_created of the JSON on stdout
NoCli == [run |-> 0, directory |-> "", code |-> -1, printed |-> NoFiles]

\* the state shared by both modes before anything has run
Fresh ==
    /\ fs0 = fs
    /\ ppc = "scan" /\ nread = 0
    /\ lineClosed = FALSE /\ errChan = << >>
    /\ nsig = 0 /\ sigChan = 0 /\ spc = "wait" /\ cancelled = FALSE
    /\ line = EmptyLine /\ lineNo = 0
    /\ wf = NoCall /\ ret = NoRet /\ resp = NoResp
    /\ out = << >> /\ disp = << >> /\ nEmpty = 0 /\ exitReason = "running"
    /\ prevCall = NoPrev

\* server mode (the default, main.go:128): runMCPServer is about to enter
\* its loop, both goroutines are started
\* (each destination is absent or a regular file here; the other kinds of
\* entries are explored in CLI mode, which runs the same writeFiles)
Init ==
    /\ mode = "server" /\ cli = NoCli
    /\ fs \in [DestNames -> {Absent, Entry("file", "old")}]
    /\ pc = "select"
    /\ Fresh

\* CLI mode (main.go:123-126): runCLI is about to run
InitCLI ==
    /\ mode = "cli" /\ cli = NoCli
    /\ fs \in [DestNames -> InitEntries]
    /\ pc = "cli"
    /\ Fresh

Running == pc # "exit"

(***************************************************************************)
(* The request handlers up to their first effect: either a response to     *)
(* write (next = "send") or a writeFiles call to make (next = "call").     *)
(***************************************************************************)
Reply(r) == [next |-> "send", resp |-> r, directory |-> ""]
CallWriteFiles(directory) == [next |-> "call", resp |-> NoResp, directory |-> directory]

\* handleToolsCall without the test of the tool name (main.go:296): every
\* tool name runs writeFiles
handleToolsCall_AnyTool(req) ==
    LET params == UnmarshalParams(req.Params)
        arg == DirectoryArg(params)
    IN  IF params.err
        THEN Reply(sendError(req.ID, CodeInvalidParams, "Invalid params", NoPath))
        ELSE IF ~arg.ok \/ arg.directory = ""
        THEN Reply(sendError(req.ID, CodeInvalidParams,
                             "Missing or invalid 'directory' parameter", NoPath))
        ELSE CallWriteFiles(arg.directory)

\* handleToolsCall reporting a tool other than init as an unknown method
handleToolsCall_UnknownMethod(req) ==
    LET params == UnmarshalParams(req.Params)
        arg == DirectoryArg(params)
    IN  IF params.err
        THEN Reply(sendError(req.ID, CodeInvalidParams, "Invalid params", NoPath))
        ELSE IF params.Name # "init"
        THEN Reply(sendError(req.ID, CodeMethodNotFound, "Unknown tool", NoPath))
        ELSE IF ~arg.ok \/ arg.directory = ""
        THEN Reply(sendError(req.ID, CodeInvalidParams,
                             "Missing or invalid 'directory' parameter", NoPath))
        ELSE CallWriteFiles(arg.directory)

\* main.go:289-307
handleToolsCall(req) ==
    LET params == UnmarshalParams(req.Params)
        arg == DirectoryArg(params)
    IN  IF params.err
        THEN Reply(sendError(req.ID, CodeInvalidParams, "Invalid params", NoPath))
        ELSE IF params.Name # "init"
        THEN Reply(sendError(req.ID, CodeInvalidParams, "Unknown tool", NoPath))
        ELSE IF ~arg.ok \/ arg.directory = ""
        THEN Reply(sendError(req.ID, CodeInvalidParams,
                             "Missing or invalid 'directory' parameter", NoPath))
        ELSE CallWriteFiles(arg.directory)

\* main.go:237-248, with handleInitialize (250-265) and handleToolsList (267-287)
handleRequest(req) ==
    CASE req.Method = "initialize" ->
            Reply(sendResponse(req.ID, "InitializeResult", NoFiles))
      [] req.Method = "tools/list" ->
            Reply(sendResponse(req.ID, "ToolsListResult", NoFiles))
      [] req.Method = "tools/call" -> handleToolsCall(req)
      [] OTHER -> Reply(sendError(req.ID, CodeMethodNotFound, "Method not found", NoPath))

\* HandleLine reporting a line that does not decode as an invalid request
HandleLine_WrongCode(l) ==
    LET req == Unmarshal(l)
    IN  IF req.err
        THEN Reply(sendError(JNull, -32600, "Invalid Request", NoPath))
        ELSE handleRequest(req)

\* main.go:226-232: what the loop body does with a non-empty line
HandleLine(l) ==
    LET req == Unmarshal(l)
    IN  IF req.err
        THEN Reply(sendError(JNull, CodeParseError, "Parse error", NoPath))
        ELSE handleRequest(req)

\* main.go:307-328: handleToolsCall after writeFiles has returned r
ToolsCallResponse(req, r) ==
    IF r.err # NoErr
    THEN sendError(req.ID, CodeInternalError, "Init failed: " \o r.err.kind, r.err.path)
    ELSE sendResponse(req.ID, "ToolCallResult", r.FilesCreated)

(***************************************************************************)
(* The line producer, main.go:201-209.                                     *)
(***************************************************************************)
\* Scan of a producer whose send does not block: a line read while the main
\* loop is busy with a request is dropped
Scan_DropWhenBusy ==
    /\ Running /\ ppc = "scan" /\ nread < MaxLines
    /\ nread' = nread + 1
    /\ ppc' = IF pc = "select" THEN "send" ELSE "scan"
    /\ UNCHANGED <<mode, cli, fs, lineClosed, errChan, signalVars, cancelled, pc, line,
                   lineNo, callVars, resp, logVars, prevCall>>

\* scanner.Scan() returns true with the next line and the producer goes on
\* to lineChan <- scanner.Text().  The text of the line is an input of the
\* program: it is drawn in SelectLine, where the program first looks at it.
Scan ==
    /\ Running /\ ppc = "scan" /\ nread < MaxLines
    /\ nread' = nread + 1
    /\ ppc' = "send"
    /\ UNCHANGED <<mode, cli, fs, lineClosed, errChan, signalVars, cancelled, pc, line,
                   lineNo, callVars, resp, logVars, prevCall>>

\* scanner.Scan() returns false at the end of the input: scanner.Err() is nil
ScanEOF ==
    /\ Running /\ ppc = "scan"
    /\ ppc' = "close"
    /\ UNCHANGED <<mode, cli, fs, nread, lineClosed, errChan, signalVars, cancelled,
                   pc, line, lineNo, callVars, resp, logVars, prevCall>>

\* scanner.Scan() returns false on a read error (or a line too long)
ScanError ==
    /\ Running /\ ppc = "scan"
    /\ ppc' = "err"
    /\ UNCHANGED <<mode, cli, fs, nread, lineClosed, errChan, signalVars, cancelled,
                   pc, line, lineNo, callVars, resp, logVars, prevCall>>

\* errChan <- err, main.go:206
PublishError ==
    /\ Running /\ ppc = "err" /\ Len(errChan) < ErrChanCap
    /\ errChan' = Append(errChan, "err")
    /\ ppc' = "close"
    /\ UNCHANGED <<mode, cli, fs, nread, lineClosed, signalVars, cancelled, pc, line,
                   lineNo, callVars, resp, logVars, prevCall>>

\* close(lineChan), main.go:208
CloseLines ==
    /\ Running /\ ppc = "close"
    /\ lineClosed' = TRUE
    /\ ppc' = "done"
    /\ UNCHANGED <<mode, cli, fs, nread, errChan, signalVars, cancelled, pc, line,
                   lineNo, callVars, resp, logVars, prevCall>>

(***************************************************************************)
(* Signals and the signal goroutine, main.go:187-194.                      *)
(***************************************************************************)
\* SIGINT or SIGTERM arrives: signal.Notify sends without blocking and drops
\* the signal when sigChan is full
Signal ==
    /\ Running /\ nsig < MaxSignals
    /\ nsig' = nsig + 1
    /\ sigChan' = IF sigChan < SigChanCap THEN sigChan + 1 ELSE sigChan
    /\ UNCHANGED <<mode, cli, fs, producerVars, spc, cancelled, pc, line, lineNo, callVars,
                   resp, logVars, prevCall>>

\* <-sigChan, main.go:191
SigReceive ==
    /\ Running /\ spc = "wait" /\ sigChan > 0
    /\ sigChan' = sigChan - 1
    /\ spc' = "woke"
    /\ UNCHANGED <<mode, cli, fs, producerVars, nsig, cancelled, pc, line, lineNo, callVars,
                   resp, logVars, prevCall>>

\* SigCancel of a signal goroutine that takes the signal and returns without
\* calling cancel()
SigCancel_NoCancel ==
    /\ Running /\ spc = "woke"
    /\ spc' = "done"
    /\ UNCHANGED <<mode, cli, fs, producerVars, nsig, sigChan, cancelled, pc, line,
                   lineNo, callVars, resp, logVars, prevCall>>

\* cancel(), main.go:192-193
SigCancel ==
    /\ Running /\ spc = "woke"
    /\ cancelled' = TRUE
    /\ spc' = "done"
    /\ UNCHANGED <<mode, cli, fs, producerVars, nsig, sigChan, pc, line, lineNo, callVars,
                   resp, logVars, prevCall>>

(***************************************************************************)
(* The main loop, main.go:211-235.  select chooses among its ready cases;  *)
(* when several are ready any of them may be chosen.                       *)
(***************************************************************************)
\* return from runMCPServer: the deferred cancel() runs (main.go:185)
Exit(reason) ==
    /\ pc' = "exit"
    /\ exitReason' = reason
    /\ cancelled' = TRUE

\* SelectDone of a loop that prefers its input: ctx is looked at only when
\* no line is ready
SelectDone_LinesFirst ==
    /\ pc = "select" /\ cancelled /\ ppc # "send"
    /\ Exit("cancelled")
    /\ UNCHANGED <<mode, cli, fs, producerVars, signalVars, line, lineNo, callVars, resp,
                   out, disp, nEmpty, prevCall>>

\* SelectDone of a server that also looks at ctx between the filesystem
\* calls of writeFiles and gives up the request when it is cancelled
SelectDone_Preempt ==
    /\ pc \in {"select", "wf_stat", "wf_write"} /\ cancelled
    /\ Exit("cancelled")
    /\ UNCHANGED <<mode, cli, fs, producerVars, signalVars, line, lineNo, callVars, resp,
                   out, disp, nEmpty, prevCall>>

\* case <-ctx.Done(), main.go:213-214
SelectDone ==
    /\ pc = "select" /\ cancelled
    /\ Exit("cancelled")
    /\ UNCHANGED <<mode, cli, fs, producerVars, signalVars, line, lineNo, callVars, resp,
                   out, disp, nEmpty, prevCall>>

\* case err := <-errChan, main.go:215-217
SelectErr ==
    /\ pc = "select" /\ Len(errChan) > 0
    /\ errChan' = Tail(errChan)
    /\ Exit("readerr")
    /\ UNCHANGED <<mode, cli, fs, ppc, nread, lineClosed, signalVars, line, lineNo,
                   callVars, resp, out, disp, nEmpty, prevCall>>

\* case line, ok := <-lineChan with ok false, main.go:218-221
SelectClosed ==
    /\ pc = "select" /\ lineClosed
    /\ Exit("closed")
    /\ UNCHANGED <<mode, cli, fs, producerVars, signalVars, line, lineNo, callVars, resp,
                   out, disp, nEmpty, prevCall>>

\* SelectLine of a loop that hands each request to a goroutine of its own:
\* the next line is taken while the response is still to be written
SelectLine_Early ==
    /\ pc \in {"select", "send"} /\ ppc = "send"
    /\ ppc' = "scan"
    /\ \E l \in Lines :
         IF l = EmptyLine
         THEN /\ nEmpty' = nEmpty + 1
              /\ UNCHANGED <<pc, line, lineNo, disp>>
         ELSE /\ pc' = "handle"
              /\ line' = l
              /\ lineNo' = nread
              /\ disp' = Append(disp, nread)
              /\ UNCHANGED nEmpty
    /\ UNCHANGED <<mode, cli, fs, nread, lineClosed, errChan, signalVars, cancelled,
                   callVars, resp, out, exitReason, prevCall>>

\* SelectLine without the test of main.go:222: an empty line is dispatched
SelectLine_NoEmptyCheck ==
    /\ pc = "select" /\ ppc = "send"
    /\ ppc' = "scan"
    /\ \E l \in Lines :
         /\ pc' = "handle"
         /\ line' = l
         /\ lineNo' = nread
         /\ disp' = Append(disp, nread)
         /\ UNCHANGED nEmpty
    /\ UNCHANGED <<mode, cli, fs, nread, lineClosed, errChan, signalVars, cancelled,
                   callVars, resp, out, exitReason, prevCall>>

\* case line, ok := <-lineChan with ok true: lineChan is unbuffered, so the
\* receive is a rendezvous with the producer's send (main.go:203, 218).  An
\* empty line continues the loop (main.go:222-224).
SelectLine ==
    /\ pc = "select" /\ ppc = "send"
    /\ ppc' = "scan"
    /\ \E l \in Lines :
         IF l = EmptyLine
         THEN /\ nEmpty' = nEmpty + 1
              /\ UNCHANGED <<pc, line, lineNo, disp>>
         ELSE /\ pc' = "handle"
              /\ line' = l
              /\ lineNo' = nread
              /\ disp' = Append(disp, nread)
              /\ UNCHANGED nEmpty
    /\ UNCHANGED <<mode, cli, fs, nread, lineClosed, errChan, signalVars, cancelled,
                   callVars, resp, out, exitReason, prevCall>>

\* main.go:226-232 up to the response or the call of writeFiles (main.go:307)
Handle ==
    /\ pc = "handle"
    /\ LET h == HandleLine(line)
       IN  IF h.next = "send"
           THEN /\ resp' = h.resp
                /\ pc' = "send"
                /\ UNCHANGED callVars
           ELSE /\ wf' = [dir |-> h.directory, i |-> 0, created |-> NoFiles]
                /\ ret' = NoRet
                /\ fs0' = fs
                /\ pc' = "wf_statdir"
                /\ UNCHANGED resp
    /\ UNCHANGED <<mode, cli, fs, producerVars, signalVars, cancelled, line, lineNo,
                   logVars, prevCall>>

\* Send of a server that gives up after reporting a failure of writeFiles:
\* the loop returns once the response is written
Send_FatalInternal ==
    /\ pc = "send"
    /\ out' = Append(out, [n |-> lineNo, code |-> resp.code])
    /\ IF resp.code = CodeInternalError
       THEN pc' = "exit" /\ exitReason' = "closed"
       ELSE pc' = "select" /\ UNCHANGED exitReason
    /\ line' = EmptyLine /\ lineNo' = 0 /\ resp' = NoResp
    /\ wf' = NoCall /\ ret' = NoRet /\ fs0' = fs
    /\ UNCHANGED <<mode, cli, fs, producerVars, signalVars, cancelled, disp,
                   nEmpty, prevCall>>

\* Send of a server that treats a request whose id is null as a notification
\* and writes nothing for it
Send_SkipNull ==
    /\ pc = "send"
    /\ out' = IF resp.id = JNull THEN out
              ELSE Append(out, [n |-> lineNo, code |-> resp.code])
    /\ pc' = "select"
    /\ line' = EmptyLine /\ lineNo' = 0 /\ resp' = NoResp
    /\ wf' = NoCall /\ ret' = NoRet /\ fs0' = fs
    /\ UNCHANGED <<mode, cli, fs, producerVars, signalVars, cancelled, disp,
                   nEmpty, exitReason, prevCall>>

\* fmt.Println(string(data)) in sendResponse and sendError (main.go:342, 359);
\* the loop then continues with the next select
Send ==
    /\ pc = "send"
    /\ out' = Append(out, [n |-> lineNo, code |-> resp.code])
    /\ pc' = "select"
    /\ line' = EmptyLine /\ lineNo' = 0 /\ resp' = NoResp
    /\ wf' = NoCall /\ ret' = NoRet /\ fs0' = fs
    /\ UNCHANGED <<mode, cli, fs, producerVars, signalVars, cancelled, disp,
                   nEmpty, exitReason, prevCall>>

(***************************************************************************)
(* writeFiles, main.go:152-181, one step per filesystem call.              *)
(***************************************************************************)
Return(r) ==
    /\ ret' = r
    /\ pc' = "wf_ret"

\* the loop head after entry i - 1: the next entry, or the return of main.go:177
NextEntry(i, created) ==
    IF i <= Len(embeddedFiles)
    THEN /\ wf' = [wf EXCEPT !.i = i, !.created = created]
         /\ pc' = "wf_stat"
         /\ UNCHANGED ret
    ELSE /\ wf' = [wf EXCEPT !.i = i, !.created = created]
         /\ Return(WfResult(NoErr, wf.dir, created))

\* WfStatDir without the info.IsDir() test of main.go:157
WfStatDir_NoIsDir ==
    /\ pc = "wf_statdir"
    /\ LET info == StatDirectory(wf.dir)
       IN  IF info.err # "nil"
           THEN Return(WfResult(ErrChecking(wf.dir), "", NoFiles)) /\ UNCHANGED wf
           ELSE NextEntry(1, NoFiles)
    /\ UNCHANGED <<mode, cli, fs, fs0, producerVars, signalVars, cancelled, line,
                   lineNo, resp, logVars, prevCall>>

\* main.go:153-161
WfStatDir ==
    /\ pc = "wf_statdir"
    /\ LET info == StatDirectory(wf.dir)
       IN  IF info.err # "nil"
           THEN Return(WfResult(ErrChecking(wf.dir), "", NoFiles)) /\ UNCHANGED wf
           ELSE IF ~info.IsDir
           THEN Return(WfResult(ErrNotDir(wf.dir), "", NoFiles)) /\ UNCHANGED wf
           ELSE NextEntry(1, NoFiles)
    /\ UNCHANGED <<mode, cli, fs, fs0, producerVars, signalVars, cancelled, line, lineNo,
                   resp, logVars, prevCall>>

\* the existence check of main.go:166
Exists(f, directory, name) == Stat(f, directory, name) = "nil"

\* WfStat of an all-or-nothing writeFiles: on a conflict the files this
\* call has written are removed again
WfStat_Rollback ==
    /\ pc = "wf_stat"
    /\ LET ef == embeddedFiles[wf.i]
           destPath == Join(wf.dir, ef.DestName)
       IN  IF Exists(fs, wf.dir, ef.DestName)
           THEN /\ Return(WfResult(ErrExists(destPath), "", NoFiles))
                /\ fs' = [n \in DestNames |->
                            IF \E j \in 1..(wf.i - 1) : embeddedFiles[j].DestName = n
                            THEN fs0[n] ELSE fs[n]]
           ELSE pc' = "wf_write" /\ UNCHANGED <<ret, fs>>
    /\ UNCHANGED <<mode, cli, fs0, wf, producerVars, signalVars, cancelled, line,
                   lineNo, resp, logVars, prevCall>>

\* main.go:164-168
WfStat ==
    /\ pc = "wf_stat"
    /\ LET ef == embeddedFiles[wf.i]
           destPath == Join(wf.dir, ef.DestName)
       IN  IF Exists(fs, wf.dir, ef.DestName)
           THEN Return(WfResult(ErrExists(destPath), "", NoFiles))
           ELSE pc' = "wf_write" /\ UNCHANGED ret
    /\ UNCHANGED <<mode, cli, fs, fs0, wf, producerVars, signalVars, cancelled, line,
                   lineNo, resp, logVars, prevCall>>

\* WfWrite recording the destination filename instead of the joined path
WfWrite_NameOnly ==
    /\ pc = "wf_write"
    /\ LET ef == embeddedFiles[wf.i]
           destPath == Join(wf.dir, ef.DestName)
           e == IF wf.dir = "/d" THEN fs[ef.DestName] ELSE Absent
       IN  \E w \in WriteFile(e, wf.dir, ef.Content) :
             /\ fs' = IF wf.dir = "/d" THEN [fs EXCEPT ![ef.DestName] = w.entry] ELSE fs
             /\ IF w.err
                THEN Return(WfResult(ErrWriting(destPath), "", NoFiles)) /\ UNCHANGED wf
                ELSE NextEntry(wf.i + 1, Append(wf.created, <<ef.DestName>>))
    /\ UNCHANGED <<mode, cli, fs0, producerVars, signalVars, cancelled, line, lineNo, resp,
                   logVars, prevCall>>

\* main.go:170-175
WfWrite ==
    /\ pc = "wf_write"
    /\ LET ef == embeddedFiles[wf.i]
           destPath == Join(wf.dir, ef.DestName)
           e == IF wf.dir = "/d" THEN fs[ef.DestName] ELSE Absent
       IN  \E w \in WriteFile(e, wf.dir, ef.Content) :
             /\ fs' = IF wf.dir = "/d" THEN [fs EXCEPT ![ef.DestName] = w.entry] ELSE fs
             /\ IF w.err
                THEN Return(WfResult(ErrWriting(destPath), "", NoFiles)) /\ UNCHANGED wf
                ELSE NextEntry(wf.i + 1, Append(wf.created, destPath))
    /\ UNCHANGED <<mode, cli, fs0, producerVars, signalVars, cancelled, line, lineNo, resp,
                   logVars, prevCall>>

\* what is remembered of a completed call
Completed(call, r, before) ==
    [done |-> TRUE, dir |-> call.dir, ret |-> r, pre |-> before]

\* main.go:307-328: back in handleToolsCall
WfReturn ==
    /\ pc = "wf_ret" /\ mode = "server"
    /\ resp' = ToolsCallResponse(Unmarshal(line), ret)
    /\ prevCall' = Completed(wf, ret, fs0)
    /\ pc' = "send"
    /\ UNCHANGED <<mode, cli, fs, fs0, wf, ret, producerVars, signalVars,
                   cancelled, line, lineNo, logVars>>

(***************************************************************************)
(* CLI mode, main.go:131-150.                                              *)
(***************************************************************************)
\* main.go:132-137: the -directory flag is an input
RunCLI ==
    /\ pc = "cli" /\ mode = "cli"
    /\ \E directory \in Dirs \cup {""} :
         IF directory = ""
         THEN /\ cli' = [cli EXCEPT !.run = @ + 1, !.directory = directory,
                                    !.code = ExitError]
              /\ pc' = "exit"
              /\ UNCHANGED callVars
         ELSE /\ cli' = [cli EXCEPT !.run = @ + 1, !.directory = directory]
              /\ wf' = [dir |-> directory, i |-> 0, created |-> NoFiles]
              /\ ret' = NoRet
              /\ fs0' = fs
              /\ pc' = "wf_statdir"
    /\ UNCHANGED <<mode, fs, producerVars, signalVars, cancelled, line, lineNo,
                   resp, logVars, prevCall>>

\* main.go:137-149: back in runCLI
CliReturn ==
    /\ pc = "wf_ret" /\ mode = "cli"
    /\ cli' = IF ret.err # NoErr
              THEN [cli EXCEPT !.code = ExitError]
              ELSE [cli EXCEPT !.code = ExitSuccess, !.printed = ret.FilesCreated]
    /\ prevCall' = Completed(wf, ret, fs0)
    /\ pc' = "exit"
    /\ UNCHANGED <<mode, fs, fs0, wf, ret, producerVars, signalVars, cancelled,
                   line, lineNo, resp, logVars>>

\* the program is run again on the filesystem the last run left
RunAgain ==
    /\ pc = "exit" /\ mode = "cli" /\ cli.run < MaxRuns
    /\ cli' = [NoCli EXCEPT !.run = cli.run]
    /\ wf' = NoCall /\ ret' = NoRet /\ fs0' = fs
    /\ pc' = "cli"
    /\ UNCHANGED <<mode, fs, producerVars, signalVars, cancelled, line, lineNo,
                   resp, logVars, prevCall>>

Producer == Scan \/ ScanEOF \/ ScanError \/ PublishError \/ CloseLines
Signals == Signal \/ SigReceive \/ SigCancel
MainLoop == SelectDone \/ SelectErr \/ SelectClosed \/ SelectLine \/ Handle \/ Send
WriteFiles == WfStatDir \/ WfStat \/ WfWrite \/ WfReturn

Next == Producer \/ Signals \/ MainLoop \/ WriteFiles

Spec == Init /\ [][Next]_vars

\* The server under the scheduling of the Go runtime.  A goroutine that can
\* run is run: the signal goroutine takes a buffered signal and calls
\* cancel(), the main goroutine goes on through the handler, writeFiles
\* and the write of the response and takes a ready case of its select.  A
\* select chooses among its ready cases at random, so a case that is ready
\* time and again is chosen in the end: the ctx.Done case.  Nothing is
\* assumed of the input or of the signals, and of the producer only that
\* it goes on after the scanner has stopped (errChan <- err, which finds
\* the buffer free, and close(lineChan)): it may stay for ever in
\* scanner.Scan() or in its send on lineChan.
SpecFair ==
    /\ Spec
    /\ WF_vars(MainLoop \/ WriteFiles)
    /\ WF_vars(SigReceive \/ SigCancel)
    /\ WF_vars(PublishError \/ CloseLines)
    /\ SF_vars(SelectDone)

NextCLI == RunCLI \/ WfStatDir \/ WfStat \/ WfWrite \/ CliReturn \/ RunAgain

SpecCLI == InitCLI /\ [][NextCLI]_vars

(***************************************************************************)
(* writeFiles beside another process.  The directory is shared with the    *)
(* rest of the system and writeFiles takes no lock (main.go:163-175), so   *)
(* another process can create a file at a destination path between any two *)
(* of its filesystem calls, the os.Stat of main.go:166 and the             *)
(* os.WriteFile of main.go:170 of one entry included.                      *)
(***************************************************************************)
ExternalEntry == Entry("file", "external")

External ==
    /\ pc \in {"wf_statdir", "wf_stat", "wf_write"} /\ wf.dir = "/d"
    /\ \E n \in DestNames :
         /\ fs[n].kind = "absent"
         /\ fs' = [fs EXCEPT ![n] = ExternalEntry]
    /\ UNCHANGED <<mode, cli, fs0, producerVars, signalVars, cancelled, pc, line,
                   lineNo, wf, ret, resp, logVars, prevCall>>

NextRace == NextCLI \/ External

SpecRace == InitCLI /\ [][NextRace]_vars

(***************************************************************************)
(* Definitions the properties share.                                       *)
(***************************************************************************)
\* a line has been taken from lineChan and its response is not yet written
InFlight == pc \in {"handle", "wf_statdir", "wf_stat", "wf_write", "wf_ret", "send"}

\* the number of lines the main loop has received from lineChan
Taken == IF ppc = "send" THEN nread - 1 ELSE nread

\* the id of a request as its sender wrote it; a request without id is
\* answered with id null
SentId(l) == IF l.id.t = "absent" THEN JNull ELSE l.id

DestPath(i) == Join("/d", embeddedFiles[i].DestName)
AllPaths == [i \in 1..Len(embeddedFiles) |-> DestPath(i)]
Written(i) == Entry("file", embeddedFiles[i].Content)

\* the template entries the call in progress has reached
Reached == { i \in 1..Len(embeddedFiles) : i <= wf.i }

\* the first template entry whose destination holds an entry in f
FirstExisting(f) ==
    CHOOSE k \in 1..Len(embeddedFiles) :
        /\ f[embeddedFiles[k].DestName].kind # "absent"
        /\ \A j \in 1..(k - 1) : f[embeddedFiles[j].DestName].kind = "absent"

\* a line that asks for the init tool with a non-empty string as directory:
\* the requests that pass the validation of main.go:290-305
ValidInitCall(l) ==
    /\ l.k = "obj" /\ l.method = JStr("tools/call")
    /\ l.pt = "obj" /\ l.name = JStr("init")
    /\ l.at = "obj" /\ l.dir.t = "str" /\ l.dir.s # ""

\* the methods handleRequest knows, main.go:239-244
Methods == {"initialize", "tools/list", "tools/call"}

\* the class of a non-empty line by what is wrong with it, read off the line:
\* it does not decode into a request (no JSON, no object or null, or a
\* method that is no string), it names no known method, it is a tools/call
\* that fails validation, it is a valid call of the init tool, or it is a
\* request that needs no validation
FailureClass(l) ==
    CASE l.k \in {"garbage", "scalar"} -> "parse"
      [] l.k = "obj" /\ l.method.t \notin {"str", "null", "absent"} -> "parse"
      [] l.k = "null" \/ l.method.t # "str" \/ l.method.s \notin Methods -> "method"
      [] l.method.s # "tools/call" -> "none"
      [] ValidInitCall(l) -> "call"
      [] OTHER -> "params"

(***************************************************************************)
(* C1.  Responses appear on the output in the order in which the lines     *)
(* were read, and the response to a line is written before the next line   *)
(* is taken: the output follows the dispatched lines one for one, at most   *)
(* one line is in flight, and none is whenever the loop is at its select.   *)
(***************************************************************************)
C1_Sequential ==
    /\ Len(out) <= Len(disp)
    /\ \A i \in 1..Len(out) : out[i].n = disp[i]
    /\ \A i, j \in 1..Len(disp) : i < j => disp[i] < disp[j]
    /\ Len(disp) - Len(out) = (IF InFlight THEN 1 ELSE 0)
    /\ InFlight => disp[Len(disp)] = lineNo

\* two lines have been answered, one after the other
C1_Witness == Len(out) = 2 /\ out[1].n = 1 /\ out[2].n = 2 /\ pc = "select"

(***************************************************************************)
(* C2.  Every non-empty line the main loop dispatches produces exactly one *)
(* response line: none while it is in flight, one from then on; a built    *)
(* response carries a result or an error, also for a null or absent id.    *)
(***************************************************************************)
C2_ExactlyOne ==
    /\ \A i \in 1..Len(disp) :
           Cardinality({ j \in 1..Len(out) : out[j].n = disp[i] })
               = (IF InFlight /\ i = Len(disp) THEN 0 ELSE 1)
    /\ \A i \in 1..Len(out) : \E j \in 1..Len(disp) : disp[j] = out[i].n
    /\ pc = "send" => resp.hasResult \/ resp.hasError

\* a request without id is being answered after an earlier line was
C2_Witness ==
    /\ pc = "send" /\ line.k = "obj" /\ line.id = JAbsent
    /\ resp.hasResult /\ Len(out) = 1

(***************************************************************************)
(* C3.  writeFiles never overwrites: when a template entry is reached and  *)
(* its destination holds an entry of any kind, the call (no write failing) *)
(* fails with the conflict error naming that path and the entry is         *)
(* unchanged.                                                              *)
(***************************************************************************)
C3_NeverOverwrites ==
    (pc = "wf_ret" /\ wf.dir = "/d" /\ ret.err.kind # "writing") =>
        \A i \in Reached :
            LET n == embeddedFiles[i].DestName
            IN  fs0[n].kind # "absent" =>
                    /\ ret.err = ErrExists(DestPath(i))
                    /\ fs[n] = fs0[n]

(***************************************************************************)
(* C4.  In a directory that holds a destination filename, with k the first *)
(* entry whose destination exists, writeFiles (no write failing) returns   *)
(* the conflict error for entry k, the entries before k are written with   *)
(* their template content, and entry k and the later ones are untouched.   *)
(***************************************************************************)
C4_ConflictAtFirstExisting ==
    (pc = "wf_ret" /\ wf.dir = "/d" /\ Populated(fs0) /\ ret.err.kind # "writing") =>
        LET k == FirstExisting(fs0)
        IN  /\ ret.err = ErrExists(DestPath(k))
            /\ \A j \in 1..Len(embeddedFiles) :
                   fs[embeddedFiles[j].DestName] =
                       (IF j < k THEN Written(j) ELSE fs0[embeddedFiles[j].DestName])

(***************************************************************************)
(* C5.  In an existing directory that holds none of the destination        *)
(* filenames, and with no write failing, writeFiles succeeds, every        *)
(* template's content is at its destination path, and FilesCreated lists   *)
(* those paths in the order of the template set.                           *)
(***************************************************************************)
C5_EmptyDirSucceeds ==
    (pc = "wf_ret" /\ wf.dir = "/d" /\ ~Populated(fs0) /\ ret.err.kind # "writing") =>
        /\ ret.err = NoErr
        /\ ret.Directory = "/d"
        /\ ret.FilesCreated = AllPaths
        /\ \A i \in 1..Len(embeddedFiles) : fs[embeddedFiles[i].DestName] = Written(i)

\* writeFiles has returned from a call on the empty directory without error
C5_Witness ==
    /\ pc = "wf_ret" /\ wf.dir = "/d" /\ ~Populated(fs0)
    /\ ret.err = NoErr /\ Len(ret.FilesCreated) = Len(embeddedFiles)

(***************************************************************************)
(* C6.  When the target path does not exist or is not a directory,         *)
(* writeFiles returns its directory error before the template loop starts  *)
(* and the filesystem is as it was.                                        *)
(***************************************************************************)
C6_BadDirectory ==
    wf.dir \in {"/missing", "/f"} =>
        /\ pc \notin {"wf_stat", "wf_write"}
        /\ wf.i = 0
        /\ fs = fs0
        /\ pc = "wf_ret" =>
              /\ ret.err = (IF wf.dir = "/f" THEN ErrNotDir(wf.dir)
                            ELSE ErrChecking(wf.dir))
              /\ ret.FilesCreated = NoFiles

\* writeFiles has returned from a call on a path that is a regular file
C6_Witness == pc = "wf_ret" /\ wf.dir = "/f" /\ ret.err.kind = "not a directory"

(***************************************************************************)
(* C7.  Idempotence of failure.                                            *)
(* As claimed: two consecutive writeFiles calls on a directory that holds  *)
(* a destination filename both fail with the same conflict error.          *)
(***************************************************************************)
C7_SameConflict ==
    (/\ pc = "wf_ret" /\ prevCall.done /\ prevCall.dir = "/d" /\ wf.dir = "/d"
     /\ Populated(prevCall.pre)
     /\ \A n \in DestNames : prevCall.pre[n].kind \in {"absent", "file"}
     /\ prevCall.ret.err.kind # "writing" /\ ret.err.kind # "writing") =>
        /\ prevCall.ret.err.kind = "file already exists"
        /\ ret.err = prevCall.ret.err

\* As amended: when a call fails with a conflict error, the next call on the
\* same directory fails with a conflict error too and never succeeds; it
\* names the first template entry's path, which is the path the first call
\* named only when that call's conflict was at the first entry.
C7_ConflictAgain ==
    (/\ pc = "wf_ret" /\ prevCall.done /\ prevCall.dir = wf.dir
     /\ prevCall.ret.err.kind = "file already exists") =>
        /\ ret.err = ErrExists(Join(wf.dir, embeddedFiles[1].DestName))
        /\ (ret.err = prevCall.ret.err) <=> (prevCall.ret.err.path = DestPath(1))

\* the first call stopped at the second entry, the second at the first
C7_Witness ==
    /\ pc = "wf_ret" /\ prevCall.done /\ prevCall.dir = "/d" /\ wf.dir = "/d"
    /\ prevCall.ret.err = ErrExists(DestPath(2))
    /\ ret.err = ErrExists(DestPath(1))

(***************************************************************************)
(* C8.  The id of the response to a request that parses equals the id of   *)
(* the request, with its type.                                             *)
(***************************************************************************)
C8_IdEchoed ==
    (pc = "send" /\ ~Unmarshal(line).err) => resp.id = SentId(line)

(***************************************************************************)
(* C9.  A line that does not decode is answered with one error response    *)
(* with id null and code -32700; writing it leaves the loop at its select, *)
(* not exited, and a later line that decodes is not answered with a parse  *)
(* error.                                                                  *)
(***************************************************************************)
C9_ParseError ==
    /\ [](pc = "send" =>
            (Unmarshal(line).err <=>
                resp = sendError(JNull, CodeParseError, "Parse error", NoPath)))
    /\ [][(pc = "send" /\ resp.code = CodeParseError /\ pc' # pc) =>
            /\ pc' = "select"
            /\ exitReason' = "running"
            /\ out' = Append(out, [n |-> lineNo, code |-> CodeParseError])]_vars
    /\ [](\A i \in 1..Len(out) : out[i].code = CodeParseError =>
            /\ Cardinality({ j \in 1..Len(out) : out[j].n = out[i].n }) = 1
            /\ (pc = "exit" => exitReason \in {"cancelled", "readerr", "closed"}))

\* a parse error has been answered and the next line got a result
C9_Witness ==
    /\ Len(out) = 2 /\ out[1].code = CodeParseError /\ out[2].code = 0
    /\ pc = "select"

(***************************************************************************)
(* C10.  An empty line produces no output and leaves the loop at its       *)
(* select; no empty line is dispatched; so the responses written are as    *)
(* many as the non-empty lines taken, less the one in flight.              *)
(***************************************************************************)
C10_EmptyLines ==
    /\ [](Taken = nEmpty + Len(disp))
    /\ [](Len(out) = Len(disp) - (IF InFlight THEN 1 ELSE 0))
    /\ [](InFlight => line # EmptyLine)
    /\ [][nEmpty' # nEmpty =>
            /\ nEmpty' = nEmpty + 1
            /\ out' = out /\ disp' = disp
            /\ pc = "select" /\ pc' = "select"]_vars

\* an empty line and a non-empty line have been taken, one response written
C10_Witness == nEmpty = 1 /\ Len(disp) = 1 /\ Len(out) = 1 /\ pc = "select"

(***************************************************************************)
(* C11.  Every response written carries exactly one of result and error:   *)
(* a response built by sendResponse has a populated result and no error    *)
(* (code and message unset), one built by sendError has an error with a    *)
(* code and a message and no result; which of the two it is follows from   *)
(* the outcome of the request.                                             *)
(***************************************************************************)
C11_ResultXorError ==
    pc = "send" =>
        /\ resp.hasResult # resp.hasError
        /\ resp.hasResult =>
              /\ resp.result \in {"InitializeResult", "ToolsListResult", "ToolCallResult"}
              /\ resp.code = 0 /\ resp.message = "" /\ resp.path = NoPath
        /\ resp.hasError =>
              /\ resp.code \in {CodeParseError, CodeMethodNotFound,
                                CodeInvalidParams, CodeInternalError}
              /\ resp.message # ""
              /\ resp.result = "" /\ resp.files = NoFiles
        /\ resp.hasResult <=>
              /\ ~Unmarshal(line).err
              /\ \/ Unmarshal(line).Method \in {"initialize", "tools/list"}
                 \/ prevCall.done /\ ret = prevCall.ret /\ ret.err = NoErr
                    /\ wf.i > Len(embeddedFiles)

\* an error response is being written after a result was written
C11_Witness ==
    /\ pc = "send" /\ resp.hasError /\ ~resp.hasResult
    /\ Len(out) = 1 /\ out[1].code = 0

(***************************************************************************)
(* C12.  The error code of an error response is fixed by the failure class *)
(* alone and the four classes have pairwise distinct codes: a line that    *)
(* does not decode gets -32700, an unknown method -32601, a tools/call     *)
(* that fails validation -32602, a failure of writeFiles -32603; a request *)
(* in none of these classes gets a result.                                 *)
(***************************************************************************)
C12_CodeByClass ==
    /\ Cardinality({CodeParseError, CodeMethodNotFound, CodeInvalidParams,
                     CodeInternalError}) = 4
    /\ pc = "send" =>
          LET class == FailureClass(line)
          IN  /\ class = "parse" => resp.hasError /\ resp.code = CodeParseError
              /\ class = "method" => resp.hasError /\ resp.code = CodeMethodNotFound
              /\ class = "params" => resp.hasError /\ resp.code = CodeInvalidParams
              /\ class = "call" =>
                    /\ resp.hasError <=> ret.err # NoErr
                    /\ resp.hasError => resp.code = CodeInternalError
              /\ class = "none" => resp.hasResult
              /\ resp.code = CodeInternalError =>
                    /\ class = "call"
                    /\ ret.err.kind \in {"checking directory", "not a directory",
                                         "file already exists", "writing"}

\* a conflict of writeFiles is being reported after an unknown tool was
C12_Witness ==
    /\ pc = "send" /\ resp.code = CodeInternalError
    /\ ret.err.kind = "file already exists"
    /\ Len(out) = 1 /\ out[1].code = CodeInvalidParams

(***************************************************************************)
(* C13.  Only a tools/call of the init tool with a non-empty string as     *)
(* directory touches the filesystem: writeFiles (its stats and its writes) *)
(* runs for such a line only, every change of the filesystem is a write of *)
(* writeFiles for such a line, and while any other line is handled, or     *)
(* none, the filesystem is as the last response left it.                   *)
(***************************************************************************)
C13_FilesystemFrame ==
    /\ [](pc \in {"wf_statdir", "wf_stat", "wf_write", "wf_ret"} =>
              ValidInitCall(line))
    /\ [][fs' # fs => pc = "wf_write" /\ ValidInitCall(line)]_vars
    /\ [](~ValidInitCall(line) => fs = fs0 /\ wf = NoCall)

\* a tools/call that fails validation is being answered after a call of the
\* init tool has filled the directory, which is as that call left it
C13_Witness ==
    /\ pc = "send" /\ FailureClass(line) = "params"
    /\ prevCall.done /\ prevCall.ret.err = NoErr
    /\ \A i \in 1..Len(embeddedFiles) : fs[embeddedFiles[i].DestName] = Written(i)

(***************************************************************************)
(* C14.  No request outcome ends the loop: writing a response, whatever    *)
(* its error code, takes the loop back to its select, where a line the     *)
(* producer offers can be taken; the loop returns from its select only,    *)
(* and only when the context is cancelled, a read error is in the error    *)
(* channel or the line channel is closed.                                  *)
(***************************************************************************)
C14_LoopSurvivesErrors ==
    /\ [][(pc = "send" /\ pc' # pc) =>
            /\ pc' = "select"
            /\ exitReason' = "running"
            /\ out' = Append(out, [n |-> lineNo, code |-> resp.code])]_vars
    /\ [][(pc # "exit" /\ pc' = "exit") =>
            /\ pc = "select"
            /\ \/ cancelled /\ exitReason' = "cancelled"
               \/ Len(errChan) > 0 /\ exitReason' = "readerr"
               \/ lineClosed /\ exitReason' = "closed"]_vars
    /\ []((pc = "select" /\ ppc = "send" /\ Len(out) > 0 /\ out[Len(out)].code # 0)
            => ENABLED SelectLine)
    /\ [](pc # "exit" <=> exitReason = "running")

\* a failure of writeFiles has been reported and the line after it answered
C14_Witness ==
    /\ Len(out) = 2 /\ out[1].code = CodeInternalError
    /\ out[2].code = CodeMethodNotFound /\ pc = "select"

(***************************************************************************)
(* C15.  Cancellation liveness: once a termination signal has been         *)
(* delivered while the loop runs, the context is eventually cancelled and  *)
(* the main loop eventually returns, whatever the producer does: no        *)
(* fairness is assumed of the producer, which may stay blocked in its read *)
(* or in its send.                                                         *)
(***************************************************************************)
C15_CancellationLiveness ==
    /\ (nsig > 0) ~> cancelled
    /\ cancelled ~> (pc = "exit")

\* the loop has returned on the cancellation while the producer is still in
\* its first read
C15_Witness ==
    /\ pc = "exit" /\ exitReason = "cancelled" /\ spc = "done"
    /\ ppc = "scan" /\ nread = 0

(***************************************************************************)
(* C16.  Cancellation never cuts a request short: a step of the main       *)
(* goroutine taken while a line is in flight never leaves the loop, also   *)
(* when the context is cancelled; writeFiles returns only with an error of *)
(* its own or after its last entry; the loop is left from the select only, *)
(* when every line taken has its response written.                         *)
(***************************************************************************)
C16_RequestRunsToEnd ==
    /\ [][(InFlight /\ pc' # pc) => pc' # "exit" /\ (cancelled' <=> cancelled)]_vars
    /\ [](pc = "wf_ret" =>
            \/ ret.err.kind \in {"checking directory", "not a directory",
                                 "file already exists", "writing"}
            \/ /\ ret.err = NoErr
               /\ wf.i = Len(embeddedFiles) + 1
               /\ Len(ret.FilesCreated) = Len(embeddedFiles))
    /\ [](pc = "exit" => Len(out) = Len(disp) /\ line = EmptyLine /\ resp = NoResp)

\* the context is cancelled while writeFiles is about to write its last
\* entry
C16_Witness ==
    /\ cancelled /\ spc = "done" /\ pc = "wf_write"
    /\ wf.i = Len(embeddedFiles) /\ wf.dir = "/d"

(***************************************************************************)
(* C17.  End of input.  lineChan is closed only after the producer has     *)
(* handed over every line it read; every line handed over was an empty     *)
(* line or was dispatched; when the loop has returned through the closed   *)
(* channel every line read has been taken and every dispatched line has    *)
(* its response; with no cancel() by the signal goroutine and no read      *)
(* error the loop returns through the closed channel only; and once the    *)
(* scanner has stopped the loop does return.                               *)
(***************************************************************************)
C17_EndOfInput ==
    /\ [](lineClosed => ppc = "done" /\ Taken = nread)
    /\ [](Taken = nEmpty + Len(disp))
    /\ [](exitReason = "closed" =>
            /\ lineClosed
            /\ nread = nEmpty + Len(disp)
            /\ Len(out) = Len(disp)
            /\ \A i \in 1..Len(disp) : out[i].n = disp[i])
    /\ []((pc = "exit" /\ spc # "done" /\ errChan = << >> /\ exitReason # "readerr")
            => exitReason = "closed")
    /\ (ppc \in {"close", "done"}) ~> (pc = "exit")

\* the input ended after an empty line and a request, with no signal and no
\* read error, and the loop has returned with the request answered
C17_Witness ==
    /\ pc = "exit" /\ exitReason = "closed" /\ nsig = 0 /\ errChan = << >>
    /\ nread = 2 /\ nEmpty = 1 /\ Len(out) = 1

(***************************************************************************)
(* C18.  Non-overwrite under interleaving: a file that another process     *)
(* creates at a destination path during a writeFiles call, also between    *)
(* that entry's existence check and its write, is never overwritten or     *)
(* truncated: once created it stays as it was created.                     *)
(***************************************************************************)
C18_ExternalFileKept ==
    [][\A n \in DestNames : fs[n] = ExternalEntry => fs'[n] = ExternalEntry]_vars

(***************************************************************************)
(* C19.  After cancellation.                                               *)
(* As claimed: once the context is cancelled the main loop takes no        *)
(* further line from lineChan, also when a line is ready at the select.    *)
(***************************************************************************)
C19_NoLineAfterCancel ==
    [][cancelled => (Taken' = Taken /\ disp' = disp /\ nEmpty' = nEmpty)]_vars

\* As amended: at every select evaluated with the context cancelled the
\* ctx.Done case is ready, and when no line is ready the step the loop takes
\* returns; a line is taken after the cancellation only at a select where
\* the producer offers it at the same time, one line per select, and the
\* select may as well return and leave that line untaken.
C19_CancelAtSelect ==
    /\ []((cancelled /\ pc = "select") => ENABLED SelectDone)
    /\ [][(cancelled /\ pc = "select" /\ ppc # "send" /\ pc' # pc) =>
            pc' = "exit"]_vars
    /\ [][(cancelled /\ Taken' # Taken) =>
            /\ pc = "select" /\ ppc = "send"
            /\ Taken' = Taken + 1]_vars
    /\ []((pc = "exit" /\ ppc = "send") => exitReason = "cancelled")

\* the signal goroutine has cancelled the context, a response has been
\* written, and the loop is at its select with a line ready
C19_Witness ==
    /\ cancelled /\ spc = "done" /\ pc = "select" /\ ppc = "send"
    /\ Len(out) = 1

(***************************************************************************)
(* C20.  Read error.  When the scanner has stopped on a read error and the *)
(* signal goroutine has not cancelled, the loop leaves through the errChan *)
(* case, having received the error, and never through the closed-lineChan  *)
(* case; the producer finds errChan free and has handed over every line    *)
(* read before the error.                                                  *)
(***************************************************************************)
C20_ReadErrorReported ==
    /\ (ppc = "err" => Len(errChan) < ErrChanCap /\ Taken = nread)
    /\ (pc = "exit" /\ spc # "done" /\ (Len(errChan) > 0 \/ exitReason = "readerr")) =>
          /\ exitReason = "readerr"
          /\ errChan = << >>
====
